---------------------------- MODULE Spec2Model ----------------------------
(***************************************************************************)
(* Local Loop event scraper: the event normalization and synchronization   *)
(* pipeline (fingerprinting, date resolution, per-source dedup and time     *)
(* filter, the town coordinator, the orchestrator and the Airtable sync).   *)
(*                                                                         *)
(* Text is modelled by TLA+ strings; a character is a string of length 1.  *)
(***************************************************************************)
EXTENDS Integers, Sequences, FiniteSets, TLC

VARIABLES
  hashIn,     \* SpecHash: the two argument tuples handed to generateHash
  hashOut,    \* SpecHash: the two fingerprints returned ("none" before the call)
  dateIn,     \* SpecDate: the text handed to parseEventDate
  dateNow,    \* SpecDate: the current date read by new Date()
  dateOut,    \* SpecDate: the Date returned
  datePc,     \* SpecDate: "ready" before the call, "done" after it
  clock,           \* Spec: the current local date [year, month (0-based), day]
  ticks,           \* Spec: the midnights passed since the run started
  config,          \* Spec: main's config (towns, futureOnly) and airtableReady
  pc,              \* Spec: the position of main
  townIndex,       \* Spec: the index of the town main is at
  sourceIndex,     \* Spec: the index of the source scrapeWestIslip is at
  called,          \* Spec: the source names scrapeWestIslip has invoked, in order
  townEvents,      \* Spec: allEvents of scrapeWestIslip
  allEvents,       \* Spec: allEvents of main
  scrapingResults, \* Spec: the outcome recorded for each town
  summary,         \* Spec: the scraping summary processResults logs first
  dataset,         \* Spec: the lists handed to Actor.pushData
  sent,            \* Spec: the lists handed to sendToAirtable
  scrapedAt,       \* Spec: the date at which processResults ran
  latestScrape,    \* Spec: the records written under the key LATEST_SCRAPE
  exitCode,        \* Spec: the exit code of the run (-1 while running)
  browser,         \* Spec: the browser of main: "none", "open" or "closed"
  running,         \* Spec: the sources whose scraper was called and has not settled
  remote,        \* SpecSync: the rows of the RawEvents table, in table order
  nextId,        \* SpecSync: the id the store gives the next created row
  syncEvents,    \* SpecSync: the list handed to sendToAirtable
  syncPc,        \* SpecSync: the position of sendToAirtable
  attempt,       \* SpecSync: attempt of fetchWithRetry for the current request
  offset,        \* SpecSync: offset of clearAllEvents (0: none)
  allRecords,    \* SpecSync: allRecords of clearAllEvents
  batchIndex,    \* SpecSync: i of the current batch loop
  totalDeleted,  \* SpecSync: totalDeleted of clearAllEvents
  totalSent,     \* SpecSync: totalSent of sendToAirtable
  totalErrors,   \* SpecSync: totalErrors of sendToAirtable
  clearResult,   \* SpecSync: what clearAllEvents returned (<<>> before)
  requests,      \* SpecSync: the requests of the current call, as answered
  faults,        \* SpecSync: the answers so far that were not 2xx
  results,       \* SpecSync: per finished call, what it returned and found
  existing,      \* SpecSync: the rows of the table when the current call began
  attempts,      \* SpecSync: the answers to the attempts of the latest fetchWithRetry
  env,           \* SpecSync: the credentials in process.env and the state of the base
  airtableReady, \* SpecSync: airtableReady of Actor.main
  waited         \* SpecSync: the inter-batch delay elapsed after the latest batch

hashVars == <<hashIn, hashOut>>
dateVars == <<dateIn, dateNow, dateOut, datePc>>
runVars ==
  <<clock, ticks, config, pc, townIndex, sourceIndex, called, townEvents, allEvents,
    scrapingResults, summary, dataset, sent, scrapedAt, latestScrape, exitCode,
    browser, running>>
syncVars ==
  <<remote, nextId, syncEvents, syncPc, attempt, offset, allRecords, batchIndex,
    totalDeleted,
    totalSent, totalErrors, clearResult, requests, faults, results, existing, attempts,
    env, airtableReady, waited>>
vars == <<hashVars, dateVars, runVars, syncVars>>

\* the variables of a specification that is not running
HashIdle == hashIn = <<>> /\ hashOut = <<>>
DateIdle == dateIn = "" /\ dateNow = <<>> /\ dateOut = 0 /\ datePc = "idle"
RunIdle ==
  /\ clock = <<>> /\ ticks = 0 /\ config = <<>> /\ pc = "idle"
  /\ townIndex = 0 /\ sourceIndex = 0 /\ called = <<>>
  /\ townEvents = <<>> /\ allEvents = <<>> /\ scrapingResults = <<>>
  /\ summary = <<>>
  /\ dataset = <<>> /\ sent = <<>> /\ scrapedAt = <<>> /\ latestScrape = <<>>
  /\ exitCode = -1 /\ browser = "none" /\ running = {}
SyncIdle ==
  /\ remote = <<>> /\ nextId = 0 /\ syncEvents = <<>> /\ syncPc = "idle" /\ attempt = 0
  /\ offset = 0 /\ allRecords = <<>> /\ batchIndex = 0 /\ totalDeleted = 0
  /\ totalSent = 0 /\ totalErrors = 0 /\ clearResult = <<>> /\ requests = <<>>
  /\ faults = 0 /\ results = <<>> /\ existing = <<>> /\ attempts = <<>>
  /\ env = <<>> /\ airtableReady = FALSE /\ waited = FALSE

(***************************************************************************)
(* Strings (String.prototype.trim / substring)                             *)
(***************************************************************************)
Min(a, b) == IF a < b THEN a ELSE b
Max(a, b) == IF a > b THEN a ELSE b

CharAt(s, i) == SubSeq(s, i, i)

IsSpace(c) == c \in {" ", "\t", "\n"}

RECURSIVE TrimStart(_)
TrimStart(s) ==
  IF Len(s) > 0 /\ IsSpace(CharAt(s, 1))
    THEN TrimStart(SubSeq(s, 2, Len(s)))
    ELSE s

RECURSIVE TrimEnd(_)
TrimEnd(s) ==
  IF Len(s) > 0 /\ IsSpace(CharAt(s, Len(s)))
    THEN TrimEnd(SubSeq(s, 1, Len(s) - 1))
    ELSE s

\* s.trim()
Trim(s) == TrimEnd(TrimStart(s))

\* s.substring(0, n)
Substring0(s, n) == SubSeq(s, 1, Min(n, Len(s)))

RECURSIVE Repeat(_, _)
Repeat(s, n) == IF n = 0 THEN "" ELSE s \o Repeat(s, n - 1)

(***************************************************************************)
(* utils/hash-generator.js                                                 *)
(***************************************************************************)
\* the number of description characters that enter the fingerprint
DescPrefixLen == 50

\* crypto.createHash('md5').update(s).digest('hex'), taken as injective on s
md5(s) == <<"md5", s>>

\* the description part of the hashed string: cut first, trimmed after
DescKey(description) == Trim(Substring0(description, DescPrefixLen))

\* the template string of generateHash; a missing field is '' (x || '')
HashString(title, date, description, source) ==
  Trim(title) \o "-" \o Trim(date) \o "-" \o Trim(source) \o "-" \o DescKey(description)

generateHash(title, date, description, source) ==
  md5(HashString(title, date, description, source))

(***************************************************************************)
(* Characters and the regular-expression classes \d, \s, \w, [a-z] (flag i) *)
(***************************************************************************)
\* the character at 1-based position i, "" outside the string
At(s, i) == IF i >= 1 /\ i <= Len(s) THEN SubSeq(s, i, i) ELSE ""

\* up to n characters from position i
Slice(s, i, n) ==
  IF i > Len(s) \/ n <= 0 THEN "" ELSE SubSeq(s, Max(i, 1), Min(Len(s), i + n - 1))

DigitSeq == <<"0", "1", "2", "3", "4", "5", "6", "7", "8", "9">>
LowerSeq ==
  <<"a", "b", "c", "d", "e", "f", "g", "h", "i", "j", "k", "l", "m",
    "n", "o", "p", "q", "r", "s", "t", "u", "v", "w", "x", "y", "z">>
UpperSeq ==
  <<"A", "B", "C", "D", "E", "F", "G", "H", "I", "J", "K", "L", "M",
    "N", "O", "P", "Q", "R", "S", "T", "U", "V", "W", "X", "Y", "Z">>

InSeq(c, q) == \E k \in 1..Len(q) : q[k] = c
IndexIn(c, q) == CHOOSE k \in 1..Len(q) : q[k] = c

IsDigit(c) == InSeq(c, DigitSeq)
IsLetter(c) == InSeq(c, LowerSeq) \/ InSeq(c, UpperSeq)
IsWord(c) == IsDigit(c) \/ IsLetter(c) \/ c = "_"

ToLowerChar(c) == IF InSeq(c, UpperSeq) THEN LowerSeq[IndexIn(c, UpperSeq)] ELSE c

RECURSIVE ToLower(_)
ToLower(s) == IF Len(s) = 0 THEN "" ELSE ToLowerChar(At(s, 1)) \o ToLower(Tail(s))

\* \b between positions i-1 and i
WordBoundary(s, i) == IsWord(At(s, i - 1)) # IsWord(At(s, i))

RECURSIVE SkipLetters(_, _)
SkipLetters(s, j) == IF IsLetter(At(s, j)) THEN SkipLetters(s, j + 1) ELSE j

RECURSIVE SkipSpaces(_, _)
SkipSpaces(s, j) == IF IsSpace(At(s, j)) THEN SkipSpaces(s, j + 1) ELSE j

\* the length of the greedy \d{1,2} at position k (0: no digit there)
Digits12(s, k) ==
  IF ~IsDigit(At(s, k)) THEN 0 ELSE IF IsDigit(At(s, k + 1)) THEN 2 ELSE 1

AllDigits(t) == \A k \in 1..Len(t) : IsDigit(At(t, k))

\* NaN, as a number no parseInt of digits returns
NaN == -1000000000

\* parseInt(t) of a captured group
RECURSIVE DigitsValue(_)
DigitsValue(t) ==
  IF Len(t) = 0 THEN 0
  ELSE 10 * DigitsValue(SubSeq(t, 1, Len(t) - 1)) + (IndexIn(At(t, Len(t)), DigitSeq) - 1)

ParseInt(t) == IF Len(t) = 0 \/ ~AllDigits(t) THEN NaN ELSE DigitsValue(t)

\* the least element of a non-empty set of positions (the leftmost match)
Least(S) == CHOOSE i \in S : \A j \in S : i <= j

\* dateString.includes(sub)
Includes(s, sub) ==
  \E i \in 1..(Len(s) - Len(sub) + 1) : SubSeq(s, i, i + Len(sub) - 1) = sub

(***************************************************************************)
(* Dates: local time is taken without a zone offset or daylight saving; an  *)
(* instant is a number of minutes since 1970-01-01 00:00                    *)
(***************************************************************************)
MinutesPerDay == 1440

\* days from 1970-01-01 to the civil date y-m-d (m in 1..12)
DaysFromCivil(y, m, d) ==
  LET yy == IF m <= 2 THEN y - 1 ELSE y
      era == yy \div 400
      yoe == yy - era * 400
      mp == IF m > 2 THEN m - 3 ELSE m + 9
      doy == (153 * mp + 2) \div 5 + d - 1
      doe == yoe * 365 + yoe \div 4 - yoe \div 100 + doy
  IN era * 146097 + doe - 719468

\* the time value of an invalid Date (NaN), below every instant of the model
InvalidDate == -2000000000

\* new Date(year, month, day): month is 0-based, a day outside the month
\* carries over, a year 0..99 means 1900 + year, a NaN argument gives an
\* invalid date
NewDate(year, month, day) ==
  IF year = NaN \/ month = NaN \/ day = NaN THEN InvalidDate
  ELSE LET y == IF year >= 0 /\ year <= 99 THEN 1900 + year ELSE year
       IN (DaysFromCivil(y, month + 1, 1) + day - 1) * MinutesPerDay

\* date.setHours(hours, minutes) on a local midnight
SetHours(date, hours, minutes) ==
  IF date = InvalidDate \/ hours = NaN \/ minutes = NaN THEN InvalidDate
  ELSE date + hours * 60 + minutes

\* date.getDay(): 0 is Sunday
GetDay(date) == ((date \div MinutesPerDay) + 4) % 7

\* new Date('2099-12-31')
SentinelDate == DaysFromCivil(2099, 12, 31) * MinutesPerDay

\* a >= b on Dates: false when either is invalid
DateGeq(a, b) == a # InvalidDate /\ b # InvalidDate /\ a >= b

\* new Date(now.getFullYear(), now.getMonth(), now.getDate())
Today(now) == NewDate(now.year, now.month, now.day)

(***************************************************************************)
(* utils/date-parser.js                                                     *)
(***************************************************************************)
MonthAbbrs ==
  <<"jan", "feb", "mar", "apr", "may", "jun", "jul", "aug", "sep", "oct", "nov", "dec">>
MonthNames ==
  <<"january", "february", "march", "april", "may", "june", "july", "august",
    "september", "october", "november", "december">>
DayNames ==
  <<"sunday", "monday", "tuesday", "wednesday", "thursday", "friday", "saturday">>

NoMatch == [ok |-> FALSE]

\* the end k of a run that must be non-empty: 0 when it did not advance
PosOrZero(k, from) == IF k > from THEN k ELSE 0

\* \s+ at position a: the position after it, 0 if no white space is there
SpacesEnd(s, a) == PosOrZero(SkipSpaces(s, a), a)

\* \.?\s+ at position a
DotSpacesEnd(s, a) == SpacesEnd(s, IF At(s, a) = "." THEN a + 1 ELSE a)

\* ,?\s+ at position a
CommaSpacesEnd(s, a) == SpacesEnd(s, IF At(s, a) = "," THEN a + 1 ELSE a)

\* \b(Jan|...|Dec)[a-z]*\.?\s+ at position i: the position after it, 0 if none
MonthPrefixEnd(s, i) ==
  IF ~WordBoundary(s, i) \/ ~InSeq(ToLower(Slice(s, i, 3)), MonthAbbrs) THEN 0
  ELSE DotSpacesEnd(s, SkipLetters(s, i + 3))

\* pattern 1 from the day at position k, n digits long
MonthDayDigits(s, i, k, n) ==
  IF k = 0 \/ n = 0 \/ IsWord(At(s, k + n)) THEN NoMatch
  ELSE [ok |-> TRUE, monthName |-> Slice(s, i, 3), day |-> Slice(s, k, n)]

MonthDayFrom(s, i, k) == MonthDayDigits(s, i, k, Digits12(s, k))

\* pattern 1 at position i: /\b(Jan|...|Dec)[a-z]*\.?\s+(\d{1,2})\b/i
MonthDayAt(s, i) == MonthDayFrom(s, i, MonthPrefixEnd(s, i))

\* the leftmost position of 1..Len(s) at which a pattern matches, 0 if none
Leftmost(I) == IF I = {} THEN 0 ELSE Least(I)

MonthDayPick(s, i) == IF i = 0 THEN NoMatch ELSE MonthDayAt(s, i)

\* dateString.match(pattern 1): the leftmost match
MonthDayMatch(s) == MonthDayPick(s, Leftmost({i \in 1..Len(s) : MonthDayAt(s, i).ok}))

\* (\d{4})\b at position y: the four digits, "" if they are not there
FourDigitsAt(s, y) ==
  IF /\ y > 0 /\ Len(Slice(s, y, 4)) = 4 /\ AllDigits(Slice(s, y, 4))
     /\ ~IsWord(At(s, y + 4))
    THEN Slice(s, y, 4) ELSE ""

\* (?:st|nd|rd|th)? at position e: the position after it
OrdinalEnd(s, e) ==
  IF InSeq(ToLower(Slice(s, e, 2)), <<"st", "nd", "rd", "th">>) THEN e + 2 ELSE e

\* ,? at position a: the position after it
CommaEnd(s, a) == IF At(s, a) = "," THEN a + 1 ELSE a

\* (?:st|nd|rd|th)?,?\s*(\d{4})\b after a day that ends before position e:
\* the four digits, "" if they do not follow
YearAfterDay(s, e) == FourDigitsAt(s, SkipSpaces(s, CommaEnd(s, OrdinalEnd(s, e))))

\* pattern 2 from the day at position k: y2 is the year after n day digits,
\* y1 the year after one day digit (two day digits are tried before one)
FullDateYears(s, i, k, n, y2, y1) ==
  IF k = 0 \/ n = 0 THEN NoMatch
  ELSE IF y2 # ""
    THEN [ok |-> TRUE, monthName |-> Slice(s, i, 3), day |-> Slice(s, k, n), year |-> y2]
  ELSE IF n = 2 /\ y1 # ""
    THEN [ok |-> TRUE, monthName |-> Slice(s, i, 3), day |-> Slice(s, k, 1), year |-> y1]
  ELSE NoMatch

FullDateDigits(s, i, k, n) ==
  FullDateYears(s, i, k, n, YearAfterDay(s, k + n), YearAfterDay(s, k + 1))

FullDateFrom(s, i, k) == FullDateDigits(s, i, k, Digits12(s, k))

\* pattern 2 at position i:
\* /\b(Jan|...|Dec)[a-z]*\.?\s+(\d{1,2})(?:st|nd|rd|th)?,?\s*(\d{4})\b/i
FullDateAt(s, i) == FullDateFrom(s, i, MonthPrefixEnd(s, i))

FullDatePick(s, i) == IF i = 0 THEN NoMatch ELSE FullDateAt(s, i)

FullDateMatch(s) == FullDatePick(s, Leftmost({i \in 1..Len(s) : FullDateAt(s, i).ok}))

NamePick(s, i, q, k) == IF k = 0 THEN "" ELSE Slice(s, i, Len(q[k]))

\* the name of q that starts at position i, ignoring case ("" if none)
NameAt(s, i, q) ==
  NamePick(s, i, q, Leftmost({k \in 1..Len(q) : ToLower(Slice(s, i, Len(q[k]))) = q[k]}))

\* pattern 3 from the year at position g
LongDateYear(s, w, m, e, n, g) ==
  IF FourDigitsAt(s, g) # ""
    THEN [ok |-> TRUE, dayOfWeek |-> w, monthName |-> m,
          day |-> Slice(s, e, n), year |-> FourDigitsAt(s, g)]
    ELSE NoMatch

\* pattern 3 from the day at position e, n digits long
LongDateDigits(s, w, m, e, n) ==
  IF e = 0 \/ n = 0 THEN NoMatch
  ELSE LongDateYear(s, w, m, e, n, CommaSpacesEnd(s, e + n))

LongDateDay(s, w, m, e) == LongDateDigits(s, w, m, e, Digits12(s, e))

\* pattern 3 from the month name m at position c
LongDateMonthName(s, w, c, m) ==
  IF c = 0 \/ m = "" THEN NoMatch ELSE LongDateDay(s, w, m, SpacesEnd(s, c + Len(m)))

LongDateMonth(s, w, c) == LongDateMonthName(s, w, c, NameAt(s, c, MonthNames))

\* pattern 3 from the weekday name w at position i
LongDateWeekday(s, i, w) ==
  IF ~WordBoundary(s, i) \/ w = "" THEN NoMatch
  ELSE LongDateMonth(s, w, CommaSpacesEnd(s, i + Len(w)))

\* pattern 3 at position i:
\* /\b(Monday|...|Sunday),?\s+(January|...|December)\s+(\d{1,2}),?\s+(\d{4})\b/i
LongDateAt(s, i) == LongDateWeekday(s, i, NameAt(s, i, DayNames))

LongDatePick(s, i) == IF i = 0 THEN NoMatch ELSE LongDateAt(s, i)

LongDateMatch(s) == LongDatePick(s, Leftmost({i \in 1..Len(s) : LongDateAt(s, i).ok}))

\* the length of (\d{1,2}) before the colon, n digits being at position i
TimeHourLen(s, i, n) ==
  IF n = 2 /\ At(s, i + 2) = ":" THEN 2
  ELSE IF n >= 1 /\ At(s, i + 1) = ":" THEN 1 ELSE 0

\* the time pattern with h hour digits and AM or PM expected at position p
TimeAmPm(s, i, h, p) ==
  IF /\ h > 0 /\ IsDigit(At(s, i + h + 1)) /\ IsDigit(At(s, i + h + 2))
     /\ ToLower(Slice(s, p, 2)) \in {"am", "pm"}
    THEN [ok |-> TRUE, hours |-> Slice(s, i, h),
          minutes |-> Slice(s, i + h + 1, 2), ampm |-> Slice(s, p, 2)]
    ELSE NoMatch

TimeHours(s, i, h) == TimeAmPm(s, i, h, SkipSpaces(s, i + h + 3))

\* /(\d{1,2}):(\d{2})\s*(AM|PM)/i at position i (two hour digits before one)
TimeAt(s, i) == TimeHours(s, i, TimeHourLen(s, i, Digits12(s, i)))

TimePick(s, i) == IF i = 0 THEN NoMatch ELSE TimeAt(s, i)

TimeMatch(s) == TimePick(s, Leftmost({i \in 1..Len(s) : TimeAt(s, i).ok}))

AmPmPick(s, i) == IF i = 0 THEN "" ELSE Slice(s, i, 2)

\* dateString.match(/(am|pm)/i): the first am or pm anywhere in the text
AmPmMatch(s) ==
  AmPmPick(s, Leftmost({i \in 1..Len(s) : ToLower(Slice(s, i, 2)) \in {"am", "pm"}}))

\* the 12-hour to 24-hour conversion
Hours24(hours, ampm) ==
  IF hours = NaN THEN NaN
  ELSE IF ampm = "pm" /\ hours # 12 THEN hours + 12
  ELSE IF ampm = "am" /\ hours = 12 THEN 0
  ELSE hours

\* eventDate.setHours(hours, minutes) for a time match t
SetTime(date, t, ampm) ==
  IF t.ok THEN SetHours(date, Hours24(ParseInt(t.hours), ampm), ParseInt(t.minutes))
  ELSE date

WithTimeOf(date, t) == SetTime(date, t, IF t.ok THEN ToLower(t.ampm) ELSE "")

\* the time suffix of patterns 1 and 2
WithTime(date, s) == WithTimeOf(date, TimeMatch(s))

AmPmOrPm(a) == IF a # "" THEN ToLower(a) ELSE "pm"

\* the time suffix of pattern 3: am or pm is searched in the whole text
WithTimeLong(date, s) == SetTime(date, TimeMatch(s), AmPmOrPm(AmPmMatch(s)))

MonthIndex(k) == IF k = 0 THEN NaN ELSE k - 1

\* monthMap[key]; undefined (here NaN) for a key that is no month
MonthMap(key, q) == MonthIndex(Leftmost({k \in 1..Len(q) : q[k] = key}))

\* pattern 1 keeping the current year also for a day before today
RollYear_Never(thisYear, month, day, now) == thisYear

\* the year roll of pattern 1: next year when the day is before today
RollYear(thisYear, month, day, now) ==
  IF thisYear # InvalidDate /\ thisYear < Today(now)
    THEN NewDate(now.year + 1, month, day) ELSE thisYear

MonthDayOf(month, day, now) == RollYear(NewDate(now.year, month, day), month, day, now)

\* pattern 1 matched: the current year, next year when the day is before today
MonthDayDate(mt, month, s, now) == WithTime(MonthDayOf(month, ParseInt(mt.day), now), s)

\* pattern 2 matched: the year of the text
FullDateDate(mt, month, s) ==
  WithTime(NewDate(ParseInt(mt.year), month, ParseInt(mt.day)), s)

FirstOffset(O) == IF O = {} THEN -1 ELSE Least(O)

\* the first of the years year..year+2 in which the day falls on the asserted
\* weekday, -1 if there is none
WeekdayYear(year, month, day, dayOfWeek) ==
  FirstOffset({o \in 0..2 :
                 DayNames[GetDay(NewDate(year + o, month, day)) + 1] = ToLower(dayOfWeek)})

\* the weekday check of pattern 3 on eventDate, o being the offset of the
\* first year that fits
LongDateCorrected(mt, month, s, year, day, eventDate, o) ==
  IF /\ DayNames[GetDay(eventDate) + 1] # ToLower(mt.dayOfWeek)
     /\ ToLower(mt.monthName) = "february" /\ day = 4
     /\ o >= 0
    THEN WithTimeLong(NewDate(year + o, month, day), s)
    ELSE WithTimeLong(eventDate, s)

LongDateFix(mt, month, s, year, day) ==
  LongDateCorrected(mt, month, s, year, day, NewDate(year, month, day),
                    WeekdayYear(year, month, day, mt.dayOfWeek))

\* pattern 3 matched: the year of the text, corrected for a February 4 that
\* falls on another weekday than the text says
LongDateDate(mt, month, s) == LongDateFix(mt, month, s, ParseInt(mt.year), ParseInt(mt.day))

\* falling off the patterns without the final return: undefined
NoPatternDate_Missing == InvalidDate

\* the result of parseEventDate when no pattern matched
NoPatternDate == SentinelDate

\* monthMap[match[1].toLowerCase().substring(0, 3)]
AbbrMonth(mt) ==
  IF mt.ok THEN MonthMap(ToLower(Slice(mt.monthName, 1, 3)), MonthAbbrs) ELSE NaN

\* fullMonthMap[monthName.toLowerCase()]
LongMonth(mt) == IF mt.ok THEN MonthMap(ToLower(mt.monthName), MonthNames) ELSE NaN

ParseLongWith(s, mt, month) ==
  IF mt.ok /\ month # NaN THEN LongDateDate(mt, month, s) ELSE NoPatternDate

ParseLongMatch(s, mt) == ParseLongWith(s, mt, LongMonth(mt))

\* pattern 3 and the final return
ParseLongDate(s) == ParseLongMatch(s, LongDateMatch(s))

ParseFullWith(s, mt, month) ==
  IF mt.ok /\ month # NaN THEN FullDateDate(mt, month, s) ELSE ParseLongDate(s)

ParseFullMatch(s, mt) == ParseFullWith(s, mt, AbbrMonth(mt))

\* pattern 2, then the rest
ParseFullDate(s) == ParseFullMatch(s, FullDateMatch(s))

ParseMonthDayWith(s, now, mt, month) ==
  IF mt.ok /\ month # NaN THEN MonthDayDate(mt, month, s, now) ELSE ParseFullDate(s)

ParseMonthDayMatch(s, now, mt) == ParseMonthDayWith(s, now, mt, AbbrMonth(mt))

parseEventDate(dateString, now) ==
  IF dateString = "" THEN SentinelDate
  ELSE ParseMonthDayMatch(dateString, now, MonthDayMatch(dateString))

\* a time filter of the source scrapers that lets every event pass
isEventInFuture_Always(dateString, now) == TRUE

\* isEventInFuture of utils/date-parser.js, used by the source scrapers
isEventInFuture(dateString, now) ==
  IF dateString = "" THEN TRUE
  ELSE IF Includes(dateString, "February 04, 2025") /\ NewDate(2025, 1, 4) < Today(now)
    THEN FALSE
  ELSE DateGeq(parseEventDate(dateString, now), Today(now))

(***************************************************************************)
(* SpecHash: generateHash applied to two argument tuples                   *)
(***************************************************************************)
\* 48 and 49 filler characters: descriptions around the 50-character cut
Fill48 == Repeat("x", DescPrefixLen - 2)
Fill49 == Repeat("x", DescPrefixLen - 1)

HashTitles == {"Fair", " Fair ", "Fair-Aug 1"}
HashDates == {"Aug 1", "Aug 1-2pm", "2pm", ""}
HashSources == {"Library", "Library "}
HashDescs ==
  {"", "2pm", Fill49 \o "yz", " " \o Fill49 \o "yz", " " \o Fill48 \o "yz",
   Fill48 \o " yz"}

HashArgs ==
  [title : HashTitles, date : HashDates, description : HashDescs,
   source : HashSources]

NoHash == <<"none">>

HashInit ==
  /\ hashIn \in [1..2 -> HashArgs]
  /\ hashOut = [i \in 1..2 |-> NoHash]
  /\ DateIdle
  /\ RunIdle
  /\ SyncIdle

\* one call of generateHash(title, date, description, source)
HashCall(i) ==
  /\ hashOut[i] = NoHash
  /\ hashOut' = [hashOut EXCEPT ![i] =
       generateHash(hashIn[i].title, hashIn[i].date, hashIn[i].description,
                    hashIn[i].source)]
  /\ UNCHANGED <<hashIn, dateVars, runVars, syncVars>>

HashNext == \E i \in 1..2 : HashCall(i)

SpecHash == HashInit /\ [][HashNext]_vars

HashDone == \A i \in 1..2 : hashOut[i] # NoHash

\* the string the fingerprint is specified to hash: every field trimmed first,
\* then the first 50 characters of the trimmed description
TrimmedFirstHashString(a) ==
  Trim(a.title) \o "-" \o Trim(a.date) \o "-" \o Trim(a.source) \o "-"
    \o Substring0(Trim(a.description), DescPrefixLen)

\* C8: generateHash is the hash of trim(title), trim(date), trim(source) and the
\* first 50 characters of trim(description) joined by the delimiter, and two
\* argument tuples that agree after trimming get the same fingerprint.
C8_HashOfTrimmedFields ==
  /\ \A i \in 1..2 :
       hashOut[i] # NoHash => hashOut[i] = md5(TrimmedFirstHashString(hashIn[i]))
  /\ (/\ HashDone
      /\ Trim(hashIn[1].title) = Trim(hashIn[2].title)
      /\ Trim(hashIn[1].date) = Trim(hashIn[2].date)
      /\ Trim(hashIn[1].source) = Trim(hashIn[2].source)
      /\ Trim(hashIn[1].description) = Trim(hashIn[2].description))
       => hashOut[1] = hashOut[2]

\* the four fields that enter the fingerprint, as generateHash cuts them
FieldKey(a) ==
  <<Trim(a.title), Trim(a.date), Trim(a.source), DescKey(a.description)>>

\* C9: two events that differ in one of trimmed title, trimmed start text,
\* trimmed source or the description prefix never get the same fingerprint.
C9_DistinctFieldsDistinctFingerprint ==
  (HashDone /\ FieldKey(hashIn[1]) # FieldKey(hashIn[2]))
    => hashOut[1] # hashOut[2]

(***************************************************************************)
(* SpecDate: parseEventDate applied to one text at one current date         *)
(***************************************************************************)
DateTexts ==
  {"", "Ongoing", "TBD 7pm", "August 14", "August 14: 11:00am - 2:00pm", "Aug. 3",
   "Sep 11, 2025", "September 21st 2025", "Sept 21st, 2024 12:30 PM",
   "Tuesday, February 04, 2025", "Wednesday, February 04, 2025 7:00 pm",
   "Mayor 5", "Dec 31", "Jan 1", "Feb 30", "Feb 0", "Mar 99", "Sep 12025",
   "Sep 1b", "xSep 11", "Sep11", "June 3rd", "June 3rd 2025x", "Jul 4th, 2025",
   "12:00 am Jan 2", "Jan 2 99:99pm", "Jan 2 9:5 pm", "Monday, March 3rd 2025",
   "Sep 7th 0025", "Every Tuesday 10:30 AM", "2025-09-11", "9/11/2025",
   "Monday, March 04, 2025", "Thursday, September 11, 2025 6:30 pm"}

DateNows ==
  {[year |-> 2025, month |-> 1, day |-> 3], [year |-> 2025, month |-> 7, day |-> 14],
   [year |-> 2025, month |-> 11, day |-> 31], [year |-> 2026, month |-> 1, day |-> 28]}

DateInit ==
  /\ dateIn \in DateTexts
  /\ dateNow \in DateNows
  /\ dateOut = 0
  /\ datePc = "ready"
  /\ HashIdle
  /\ RunIdle
  /\ SyncIdle

\* one call of parseEventDate(dateString)
ParseCall ==
  /\ datePc = "ready"
  /\ dateOut' = parseEventDate(dateIn, dateNow)
  /\ datePc' = "done"
  /\ UNCHANGED <<dateIn, dateNow, hashVars, runVars, syncVars>>

DateNext == ParseCall

SpecDate == DateInit /\ [][DateNext]_vars

\* none of the three supported patterns occurs in the text
NoSupportedPattern(s) ==
  ~MonthDayMatch(s).ok /\ ~FullDateMatch(s).ok /\ ~LongDateMatch(s).ok

\* C10: parseEventDate returns a valid instant for every text, and the
\* 2099-12-31 sentinel for the empty text and for a text without a supported
\* date pattern.
C10_ParseTotalSentinel ==
  datePc = "done" =>
    /\ dateOut # InvalidDate
    /\ dateOut # NaN
    /\ (dateIn = "" \/ NoSupportedPattern(dateIn))
         => dateOut = DaysFromCivil(2099, 12, 31) * MinutesPerDay

\* a non-empty text without a date pattern was parsed to the sentinel
C10_Witness ==
  /\ datePc = "done"
  /\ dateIn # ""
  /\ NoSupportedPattern(dateIn)
  /\ dateOut = SentinelDate

\* the calendar day of an instant, as days since 1970-01-01
DayOf(date) == date \div MinutesPerDay

\* the instant lies in the calendar year y
InYear(date, y) ==
  /\ date # InvalidDate
  /\ DayOf(date) >= DaysFromCivil(y, 1, 1)
  /\ DayOf(date) < DaysFromCivil(y + 1, 1, 1)

\* the year that pattern 2 reads in the text
WrittenYear(s) == ParseInt(FullDateMatch(s).year)

\* C11: for a text with a month name, a day and a four-digit year (1000 on),
\* parseEventDate returns a date in the year written in the text, whatever
\* the current date is.
C11_WrittenYearKept ==
  (datePc = "done" /\ FullDateMatch(dateIn).ok /\ WrittenYear(dateIn) >= 1000)
    => InYear(dateOut, WrittenYear(dateIn))

\* the calendar day that a 'Weekday, Month DD, YYYY' match writes
LongDateWritten(mt) == NewDate(ParseInt(mt.year), LongMonth(mt), ParseInt(mt.day))

\* the weekday a 'Weekday, Month DD, YYYY' match asserts is the weekday of
\* the day it writes
WeekdayFits(mt) == DayNames[GetDay(LongDateWritten(mt)) + 1] = ToLower(mt.dayOfWeek)

\* C12: for a text 'Weekday, Month DD, YYYY' whose weekday is the real weekday
\* of that date, parseEventDate returns that year, month and day, for every
\* current date.
C12_MatchingWeekdayUnchanged ==
  (datePc = "done" /\ LongDateMatch(dateIn).ok /\ WeekdayFits(LongDateMatch(dateIn)))
    => DayOf(dateOut) = DayOf(LongDateWritten(LongDateMatch(dateIn)))

\* the day that the forward search of at most two years arrives at: the first
\* of the years YYYY..YYYY+2 in which the month and day fall on the asserted
\* weekday, the written year if there is none
LongDateSearched(mt, o) ==
  NewDate(ParseInt(mt.year) + (IF o >= 0 THEN o ELSE 0), LongMonth(mt), ParseInt(mt.day))

LongDateNearest(mt) ==
  LongDateSearched(mt, WeekdayYear(ParseInt(mt.year), LongMonth(mt), ParseInt(mt.day),
                                   mt.dayOfWeek))

\* C13: for a text 'Weekday, Month DD, YYYY' whose weekday is not the weekday
\* of that date, whatever the month and day, parseEventDate returns the nearest
\* date with that month and day in the years YYYY..YYYY+2 that falls on the
\* asserted weekday, and the date as written when there is none.
C13_MismatchSearchedForward ==
  (datePc = "done" /\ LongDateMatch(dateIn).ok /\ ~WeekdayFits(LongDateMatch(dateIn)))
    => DayOf(dateOut) = DayOf(LongDateNearest(LongDateMatch(dateIn)))

(***************************************************************************)
(* towns/west-islip/sources: what every source scraper does with the events *)
(* its page extraction returns                                              *)
(***************************************************************************)
LibrarySource == "West Islip Public Library"
ChamberSource == "West Islip Chamber of Commerce"
CountryFairSource == "West Islip Country Fair"
HistoricalSource == "West Islip Historical Society"
FireDeptSource == "West Islip Fire Department"

\* an event as page.evaluate returns it (the fields the pipeline reads)
RawEvent(title, start, description, source) ==
  [title_raw |-> title, start_raw |-> start, description_raw |-> description,
   source |-> source]

\* event.hash = generateHash(title_raw, start_raw, description_raw, source)
WithHash(event) ==
  [title_raw |-> event.title_raw, start_raw |-> event.start_raw,
   description_raw |-> event.description_raw, source |-> event.source,
   hash |-> generateHash(event.title_raw, event.start_raw, event.description_raw,
                         event.source)]

\* the forEach over the extracted events with unshift in the place of push:
\* the events come out in reverse
RECURSIVE uniqueEvents_Unshift(_, _, _)
uniqueEvents_Unshift(events, seenHashes, today) ==
  IF events = <<>> THEN <<>>
  ELSE IF /\ isEventInFuture(Head(events).start_raw, today)
          /\ WithHash(Head(events)).hash \notin seenHashes
    THEN uniqueEvents_Unshift(Tail(events),
                              seenHashes \cup {WithHash(Head(events)).hash}, today)
           \o <<WithHash(Head(events))>>
  ELSE uniqueEvents_Unshift(Tail(events), seenHashes, today)

\* the forEach over the extracted events: a future event whose hash this
\* source has not seen is kept
RECURSIVE uniqueEvents(_, _, _)
uniqueEvents(events, seenHashes, today) ==
  IF events = <<>> THEN <<>>
  ELSE IF /\ isEventInFuture(Head(events).start_raw, today)
          /\ WithHash(Head(events)).hash \notin seenHashes
    THEN <<WithHash(Head(events))>>
           \o uniqueEvents(Tail(events), seenHashes \cup {WithHash(Head(events)).hash},
                           today)
  ELSE uniqueEvents(Tail(events), seenHashes, today)

\* a source scraper on the outcome of its page work: an extraction that
\* raises is caught inside the scraper, which then returns []
scrapeSource(extraction, today) ==
  IF extraction.ok THEN uniqueEvents(extraction.events, {}, today) ELSE <<>>

(***************************************************************************)
(* main.js: processResults                                                  *)
(***************************************************************************)
\* a time filter that keeps every event
mainIsEventInFuture_Always(dateString, today) == TRUE

\* isEventInFuture of main.js
mainIsEventInFuture(dateString, today) ==
  IF dateString = "" THEN TRUE
  ELSE DateGeq(parseEventDate(dateString, today), Today(today))

\* the forEach of processResults that collects futureEvents
RECURSIVE futureEvents(_, _)
futureEvents(events, today) ==
  IF events = <<>> THEN <<>>
  ELSE IF mainIsEventInFuture(Head(events).start_raw, today)
    THEN <<Head(events)>> \o futureEvents(Tail(events), today)
  ELSE futureEvents(Tail(events), today)

\* processedEvents before the sort
filterFuture(events, futureOnly, today) ==
  IF futureOnly THEN futureEvents(events, today) ELSE events

\* each event with the time value the comparator reads from it
WithTimes(events, today) ==
  [i \in 1..Len(events) |->
     [time |-> parseEventDate(events[i].start_raw, today), event |-> events[i]]]

\* leaving the list as it is
SortByTime_Unsorted(ps) == ps

\* the place the sort gives entry i: behind the entries the comparator puts
\* before it (dateA.getTime() - dateB.getTime() < 0) and behind the earlier
\* entries it compares equal to (the sort of the run time is stable)
SortedPlace(ps, i) ==
  Cardinality({j \in 1..Len(ps) :
                 \/ ps[j].time - ps[i].time < 0
                 \/ ps[j].time - ps[i].time = 0 /\ j < i}) + 1

\* Array.prototype.sort with the comparator of processResults
SortByTime(ps) ==
  [k \in 1..Len(ps) |-> ps[CHOOSE i \in 1..Len(ps) : SortedPlace(ps, i) = k]]

EventsOf(ps) == [i \in 1..Len(ps) |-> ps[i].event]

\* processedEvents.sort(...)
sortChronologically(events, today) == EventsOf(SortByTime(WithTimes(events, today)))

\* processedEvents as pushed to the dataset
processedEvents(events, futureOnly, today) ==
  sortChronologically(filterFuture(events, futureOnly, today), today)

(***************************************************************************)
(* Spec: one run of main over scrapeWestIslip and its five sources          *)
(***************************************************************************)
\* the sources of scrapeWestIslip in configured order (all enabled)
sources ==
  <<[name |-> "Library", source |-> LibrarySource],
    [name |-> "Chamber", source |-> ChamberSource],
    [name |-> "Country Fair", source |-> CountryFairSource],
    [name |-> "Historical Society", source |-> HistoricalSource],
    [name |-> "Fire Department", source |-> FireDeptSource]>>

\* the towns main configures
towns == <<"West Islip">>

TownEnabled(town) == town \in config.towns

enabledTowns == SelectSeq(towns, TownEnabled)

\* the midnights the clock may pass during one run
MaxTicks == 1

\* the day after a date
NextDay(d) ==
  IF NewDate(d.year, d.month, d.day + 1) # NewDate(d.year, d.month + 1, 1)
      /\ ~(d.month = 11 /\ d.day = 31)
    THEN [year |-> d.year, month |-> d.month, day |-> d.day + 1]
  ELSE IF d.month = 11 THEN [year |-> d.year + 1, month |-> 0, day |-> 1]
  ELSE [year |-> d.year, month |-> d.month + 1, day |-> 1]

LibFair == RawEvent("Fair", "Sep 21", "West Islip Chamber of Commerce-", LibrarySource)
LibClub == RawEvent("Book Club", "Sep 23 7:00 PM", "Monthly meeting", LibrarySource)
LibStory == RawEvent("Story Time", "September 20th 2025", "", LibrarySource)
ChFair == RawEvent("Fair", "Sep 21-West Islip Public Library", "", ChamberSource)
ChMixer == RawEvent("Mixer", "September 21st 2025", "Networking", ChamberSource)
ChDrive == RawEvent("Membership Drive", "Ongoing", "", ChamberSource)
FairDay == RawEvent("Country Fair", "", "Annual fair", CountryFairSource)
HistTalk == RawEvent("History Talk", "Tuesday, February 04, 2025", "", HistoricalSource)
HistWalk == RawEvent("Village Walk", "September 19th 2025", "", HistoricalSource)
FireHouse == RawEvent("Open House", "Sep 22", "", FireDeptSource)

Extracted(events) == [ok |-> TRUE, events |-> events]
ExtractionRaised == [ok |-> FALSE]

\* the outcomes of the page work of each source this model explores (the
\* historical society's events are past at every clock of the model, so
\* its scraper resolves with [] as it does after page work that raised)
Extractions ==
  <<{ExtractionRaised, Extracted(<<LibClub, LibFair, LibFair>>),
     Extracted(<<LibStory>>)},
    {ExtractionRaised, Extracted(<<ChFair, ChMixer>>), Extracted(<<ChDrive>>)},
    {ExtractionRaised, Extracted(<<FairDay>>)},
    {Extracted(<<HistTalk, HistWalk>>)},
    {ExtractionRaised, Extracted(<<FireHouse>>)}>>

\* Math.min(input.maxEvents || 400, 2000); 0 stands for an input without
\* maxEvents
maxEventsOf(given) == Min(IF given = 0 THEN 400 ELSE given, 2000)

\* the config of a run: every choice of towns, futureOnly and airtableReady
\* without maxEvents in the input, a run with maxEvents 1 and a run without
\* towns with maxEvents 5000
Configs ==
  [towns : {{"West Islip"}, {}}, futureOnly : BOOLEAN, airtableReady : BOOLEAN,
   maxEvents : {maxEventsOf(0)}]
    \cup {[towns |-> {"West Islip"}, futureOnly |-> FALSE, airtableReady |-> TRUE,
           maxEvents |-> maxEventsOf(1)],
          [towns |-> {}, futureOnly |-> FALSE, airtableReady |-> TRUE,
           maxEvents |-> maxEventsOf(5000)]}

Init ==
  /\ clock = [year |-> 2025, month |-> 8, day |-> 20]
  /\ ticks = 0
  /\ config \in Configs
  /\ pc = "launch"
  /\ townIndex = 0
  /\ sourceIndex = 0
  /\ called = <<>>
  /\ townEvents = <<>>
  /\ allEvents = <<>>
  /\ scrapingResults = <<>>
  /\ summary = <<>>
  /\ dataset = <<>>
  /\ sent = <<>>
  /\ scrapedAt = <<>>
  /\ latestScrape = <<>>
  /\ exitCode = -1
  /\ browser = "none"
  /\ running = {}
  /\ HashIdle
  /\ DateIdle
  /\ SyncIdle

otherVars == <<hashVars, dateVars, syncVars>>
outputVars == <<summary, dataset, sent, scrapedAt, latestScrape>>
townVars == <<sourceIndex, called, townEvents>>
pageVars == <<browser, running>>

\* the finally block of main leaving the browser b as it is
Finally_NoClose(b) == browser' = b

\* the finally block of main, b being the browser at that point:
\* if (browser) await browser.close()
Finally(b) == browser' = IF b = "open" THEN "closed" ELSE b

\* puppeteer.launch and the page set-up succeed: main reaches the town loop
Launch ==
  /\ pc = "launch"
  /\ pc' = "town"
  /\ townIndex' = 1
  /\ browser' = "open"
  /\ UNCHANGED <<clock, ticks, config, townVars, allEvents, scrapingResults,
                 outputVars, exitCode, running, otherVars>>

\* the exit codes of a run that ends in the outer catch: process.exit(1), or
\* the code the Actor run time exits with when the function of Actor.main
\* throws
FatalExitCodes == {1, 91}

\* puppeteer.launch rejects (there is no browser), or it resolves and the page
\* set-up rejects: the outer catch, then the finally block
LaunchFails ==
  /\ pc = "launch"
  /\ pc' = "exited"
  /\ exitCode' \in FatalExitCodes
  /\ \E b \in {"none", "open"} : Finally(b)
  /\ UNCHANGED <<clock, ticks, config, townIndex, townVars, allEvents,
                 scrapingResults, outputVars, running, otherVars>>

\* main calls town.scraper(page): scrapeWestIslip starts
StartTown ==
  /\ pc = "town"
  /\ townIndex <= Len(enabledTowns)
  /\ pc' = "sources"
  /\ sourceIndex' = 1
  /\ called' = <<>>
  /\ townEvents' = <<>>
  /\ UNCHANGED <<clock, ticks, config, townIndex, allEvents, scrapingResults,
                 outputVars, exitCode, pageVars, otherVars>>

\* the source scrapeWestIslip is at
AtSource == pc = "sources" /\ sourceIndex \in 1..Len(sources)

\* a call of source.fn(page): what its page work extracted and what it resolved
\* with
Invoked(ok, extracted, events) ==
  [name |-> sources[sourceIndex].name, ok |-> ok, extracted |-> extracted,
   events |-> events]

\* source.fn(page) resolves with events: allEvents.concat(events)
Collect(extracted, events) ==
  /\ called' = Append(called, Invoked(TRUE, extracted, events))
  /\ townEvents' = townEvents \o events

SourceReturns ==
  /\ AtSource
  /\ \E extraction \in Extractions[sourceIndex] :
       Collect(IF extraction.ok THEN extraction.events ELSE <<>>,
               scrapeSource(extraction, clock))
  /\ sourceIndex' = sourceIndex + 1
  /\ UNCHANGED <<clock, ticks, config, pc, townIndex, allEvents, scrapingResults,
                 outputVars, exitCode, pageVars, otherVars>>

\* the catch of scrapeWestIslip gives up the remaining sources
AfterSourceError_Abort(index) == Len(sources) + 1

\* the catch of scrapeWestIslip: the loop goes on with the next source
AfterSourceError(index) == index + 1

\* source.fn(page) rejects: the catch of scrapeWestIslip logs the error
SourceRejects ==
  /\ AtSource
  /\ called' = Append(called, Invoked(FALSE, <<>>, <<>>))
  /\ sourceIndex' = AfterSourceError(sourceIndex)
  /\ UNCHANGED <<clock, ticks, config, pc, townIndex, townEvents, allEvents,
                 scrapingResults, outputVars, exitCode, pageVars, otherVars>>

\* a timer wins over the pending source.fn(page) and the loop of
\* scrapeWestIslip goes on with the next source
Pending_Abandoned == pc' = pc /\ sourceIndex' = sourceIndex + 1

\* await source.fn(page) with nothing else to wake it: the loop stays there
Pending == pc' = "hung" /\ sourceIndex' = sourceIndex

\* source.fn(page) never settles: the await of scrapeWestIslip, and with it
\* the await of main, never returns
SourceHangs ==
  /\ AtSource
  /\ called' = Append(called, Invoked(FALSE, <<>>, <<>>))
  /\ running' = running \cup {sources[sourceIndex].name}
  /\ Pending
  /\ UNCHANGED <<clock, ticks, config, townIndex, townEvents, allEvents,
                 scrapingResults, outputVars, exitCode, browser, otherVars>>

\* scrapeWestIslip returns allEvents: main concatenates and records success
TownReturns ==
  /\ pc = "sources"
  /\ sourceIndex = Len(sources) + 1
  /\ allEvents' = allEvents \o townEvents
  /\ scrapingResults' =
       (enabledTowns[townIndex] :> [success |-> TRUE, count |-> Len(townEvents)])
         @@ scrapingResults
  /\ townIndex' = townIndex + 1
  /\ pc' = "town"
  /\ UNCHANGED <<clock, ticks, config, townVars, outputVars, exitCode, pageVars, otherVars>>

\* town.scraper(page) rejects (a statement of scrapeWestIslip outside its
\* try raises): the catch of the town loop records the failure
TownRaises ==
  /\ pc = "sources"
  /\ sourceIndex \in {1, Len(sources) + 1}
  /\ scrapingResults' =
       (enabledTowns[townIndex] :> [success |-> FALSE, error |-> "townError.message"])
         @@ scrapingResults
  /\ townIndex' = townIndex + 1
  /\ pc' = "town"
  /\ UNCHANGED <<clock, ticks, config, townVars, allEvents, outputVars, exitCode,
                 pageVars, otherVars>>

\* Actor.pushData(processedEvents), and sendToAirtable(processedEvents) when
\* Airtable is ready
Pushed(processed) ==
  /\ dataset' = Append(dataset, processed)
  /\ sent' = IF config.airtableReady THEN Append(sent, processed) ELSE sent
  /\ scrapedAt' = clock

\* the record of Actor.setValue('LATEST_SCRAPE', ...)
LatestScrape(processed) ==
  [total_events_found |-> Len(allEvents),
   events_after_filtering |-> Len(processed),
   filtered_out_past_events |-> Len(allEvents) - Len(processed),
   scraping_results |-> scrapingResults,
   success |-> TRUE]

\* the tail of processResults without the early returns
SaveResults_Always(processed) ==
  /\ Pushed(processed)
  /\ latestScrape' = Append(latestScrape, LatestScrape(processed))

\* the tail of processResults: pushData, sendToAirtable when Airtable is
\* ready, and the LATEST_SCRAPE record; nothing when no event is left
SaveResults(processed) ==
  IF allEvents = <<>> \/ processed = <<>>
    THEN UNCHANGED <<dataset, sent, scrapedAt, latestScrape>>
    ELSE /\ Pushed(processed)
         /\ latestScrape' = Append(latestScrape, LatestScrape(processed))

\* the town loop is over: processResults(allEvents, scrapingResults, ...)
ProcessResults ==
  /\ pc = "town"
  /\ townIndex > Len(enabledTowns)
  /\ summary' = [total |-> Len(allEvents), results |-> scrapingResults]
  /\ SaveResults(processedEvents(allEvents, config.futureOnly, clock))
  /\ pc' = "finally"
  /\ UNCHANGED <<clock, ticks, config, townIndex, townVars, allEvents,
                 scrapingResults, exitCode, pageVars, otherVars>>

\* processResults has events to save and Actor.pushData rejects: nothing is
\* pushed, sent or written
PushRejected(processed) ==
  /\ processed # <<>>
  /\ UNCHANGED <<dataset, sent, scrapedAt, latestScrape>>

\* processResults raises (Actor.pushData rejects) and the outer catch of main
\* runs: allEvents, declared
\* with let inside the try block, is not in scope in the catch block, so the
\* test of allEvents raises a ReferenceError before pushData and
\* process.exit(1); the finally block runs and the function of Actor.main
\* rejects
ProcessRaises ==
  /\ pc = "town"
  /\ townIndex > Len(enabledTowns)
  /\ summary' = [total |-> Len(allEvents), results |-> scrapingResults]
  /\ PushRejected(processedEvents(allEvents, config.futureOnly, clock))
  /\ pc' = "exited"
  /\ exitCode' \in FatalExitCodes
  /\ Finally(browser)
  /\ UNCHANGED <<clock, ticks, config, townIndex, townVars, allEvents,
                 scrapingResults, running, otherVars>>

\* the finally block closes the browser and main returns
Finish ==
  /\ pc = "finally"
  /\ pc' = "exited"
  /\ exitCode' = 0
  /\ Finally(browser)
  /\ UNCHANGED <<clock, ticks, config, townIndex, townVars, allEvents,
                 scrapingResults, outputVars, running, otherVars>>

\* midnight passes while the run is under way
Tick ==
  /\ pc \notin {"idle", "exited"}
  /\ ticks < MaxTicks
  /\ clock' = NextDay(clock)
  /\ ticks' = ticks + 1
  /\ UNCHANGED <<config, pc, townIndex, townVars, allEvents, scrapingResults,
                 outputVars, exitCode, pageVars, otherVars>>

\* the steps of main up to the end of the town loop
ScrapeNext ==
  \/ Launch
  \/ LaunchFails
  \/ StartTown
  \/ SourceRejects
  \/ SourceHangs
  \/ SourceReturns
  \/ TownReturns
  \/ TownRaises

\* the steps of the program
RunNext == ScrapeNext \/ ProcessResults \/ ProcessRaises \/ Finish

Next == RunNext \/ Tick

Spec == Init /\ [][Next]_vars

\* the event loop runs every continuation that is ready: the town loop and
\* the exit make their steps (processResults is left without a fairness
\* condition; a run that waits at a source never gets that far)
SpecLive == Spec /\ WF_vars(ScrapeNext) /\ WF_vars(Finish)

(***************************************************************************)
(* Properties of Spec                                                       *)
(***************************************************************************)
NoEqualHashes(events) ==
  \A i, j \in 1..Len(events) : i < j => events[i].hash # events[j].hash

\* C1: the list accumulated by scrapeWestIslip and the list accumulated by
\* main never hold two events with equal hash.
C1_NoDuplicateHashes == NoEqualHashes(townEvents) /\ NoEqualHashes(allEvents)

\* the events of the invoked sources that resolved, in order of invocation
RECURSIVE ResolvedEvents(_)
ResolvedEvents(calls) ==
  IF calls = <<>> THEN <<>>
  ELSE (IF Head(calls).ok THEN Head(calls).events ELSE <<>>) \o ResolvedEvents(Tail(calls))

TownFailed(town) == town \in DOMAIN scrapingResults /\ ~scrapingResults[town].success

\* C4: when scrapeWestIslip is through its loop it has invoked every source in
\* configured order, whichever of them raised, and holds exactly the events of
\* those that resolved; and a run in which a town's scraper raised has an
\* outcome recorded for every enabled town, went through processResults with
\* these outcomes and ended with exit code 0.
C4_FailureIsolation ==
  /\ (pc = "sources" /\ sourceIndex = Len(sources) + 1) =>
       /\ [i \in 1..Len(called) |-> called[i].name]
            = [i \in 1..Len(sources) |-> sources[i].name]
       /\ townEvents = ResolvedEvents(called)
  /\ (pc = "exited" /\ \E i \in 1..Len(towns) : TownFailed(towns[i])) =>
       /\ \A i \in 1..Len(enabledTowns) : enabledTowns[i] \in DOMAIN scrapingResults
       /\ summary # <<>>
       /\ summary.results = scrapingResults
       /\ exitCode = 0

\* a run ended after a source rejected, a later source delivered events and
\* the town's scraper raised
C4_Witness ==
  /\ pc = "exited"
  /\ TownFailed("West Islip")
  /\ \E i, j \in 1..Len(called) :
       i < j /\ ~called[i].ok /\ called[j].ok /\ called[j].events # <<>>

\* C5: a scraping task that never settles still leads to a failed outcome
\* recorded for its town and to processResults.
C5_HungTaskRecorded ==
  [](pc = "hung" => <>(TownFailed("West Islip") /\ summary # <<>>))

EventInFuture(time, today) ==
  DateGeq(time, Today(today)) \/ time = DaysFromCivil(2099, 12, 31) * MinutesPerDay

AllInFuture(ps, today) == \A i \in 1..Len(ps) : EventInFuture(ps[i].time, today)

\* C6: with futureOnly enabled, every event pushed to the dataset and sent to
\* the store has a start text that parseEventDate resolves to an instant at or
\* after the midnight of the day of processing, or to the 2099-12-31 sentinel.
C6_FutureOnlyFinalSet ==
  config.futureOnly =>
    /\ \A k \in 1..Len(dataset) : AllInFuture(WithTimes(dataset[k], scrapedAt), scrapedAt)
    /\ \A k \in 1..Len(sent) : AllInFuture(WithTimes(sent[k], scrapedAt), scrapedAt)

\* futureOnly dropped an accumulated event and kept another
C6_Witness ==
  /\ pc = "exited"
  /\ config.futureOnly
  /\ Len(dataset) = 1
  /\ Len(sent) = 1
  /\ \E i \in 1..Len(allEvents) : \A j \in 1..Len(dataset[1]) : dataset[1][j] # allEvents[i]

PositionIn(events, event) == CHOOSE k \in 1..Len(events) : events[k] = event

SortedStable(ps, accumulated) ==
  \A i, j \in 1..Len(ps) :
    i < j =>
      /\ ps[i].time <= ps[j].time
      /\ ps[i].time = ps[j].time =>
           PositionIn(accumulated, ps[i].event) < PositionIn(accumulated, ps[j].event)

\* C7: the list pushed to the dataset is non-decreasing in the instant
\* parseEventDate resolves from start_raw, events with the same instant are in
\* accumulation order, and sorting the list again gives the same list.
C7_SortedStableIdempotent ==
  \A k \in 1..Len(dataset) :
    /\ SortedStable(WithTimes(dataset[k], scrapedAt), allEvents)
    /\ sortChronologically(dataset[k], scrapedAt) = dataset[k]

HasTie(ps) == \E i, j \in 1..Len(ps) : i < j /\ ps[i].time = ps[j].time

\* the sort moved an event, and two events of the list share an instant
C7_Witness ==
  /\ Len(dataset) = 1
  /\ dataset[1] # filterFuture(allEvents, config.futureOnly, scrapedAt)
  /\ HasTie(WithTimes(dataset[1], scrapedAt))

(***************************************************************************)
(* utils/airtable.js: fetchWithRetry, clearAllEvents, sendToAirtable, and   *)
(* the store answering them                                                 *)
(***************************************************************************)
maxRetries == 3
batchSize == 10

\* the rows the store lists per page
PageSize == 10
\* the answers of one behaviour that are not 2xx
MaxFaults == 3
\* the calls of sendToAirtable in one behaviour
MaxCalls == 2

\* an answer to a request: 2xx, 429, 5xx, another 4xx, or fetch rejecting
Statuses == {"ok", "rate", "server", "client", "neterr"}

\* fetchWithRetry going round again after every answer that is not 2xx
Retries_Client(status, n) == n < maxRetries /\ status # "ok"

\* fetchWithRetry going round again whatever the attempt
Retries_Again(status, n) == status \in {"rate", "server", "neterr"}

\* fetchWithRetry at this attempt waits and goes round again
Retries(status, n) == n < maxRetries /\ status \in {"rate", "server", "neterr"}

\* fetchWithRetry throws: the last attempt rejected
Throws(status, n) == status = "neterr" /\ ~Retries(status, n)

\* records.slice(i, i + batchSize) keeping one record less
Batch_Short(records, i) == SubSeq(records, i + 2, Min(i + batchSize, Len(records)))

\* records.slice(i - 1, i + batchSize): each slice after the first starts with
\* the last record of the slice before
Batch_Overlapping(records, i) ==
  SubSeq(records, Max(i, 1), Min(i + batchSize, Len(records)))

\* records.slice(i, i + batchSize)
Batch(records, i) == SubSeq(records, i + 1, Min(i + batchSize, Len(records)))

\* batch.map(record => record.id)
RecordIds(records) == {records[k].id : k \in 1..Len(records)}

\* the page of rows the store lists from an offset, and the offset it hands
\* out with it (0: the listing is complete)
ListedPage(from) == SubSeq(remote, from + 1, Min(from + PageSize, Len(remote)))
ListedOffset(from) == IF from + PageSize < Len(remote) THEN from + PageSize ELSE 0

\* the table after the store deleted the rows of the ids
Deleted(rows, ids) == SelectSeq(rows, LAMBDA row : row.id \notin ids)

\* the rows the store creates for posted records
Created(records, first) ==
  [k \in 1..Len(records) |-> [id |-> first + k - 1, fields |-> records[k]]]

\* the validity filter of sendToAirtable without the trim
HasTitle_Untrimmed(event) == event.title_raw # ""

\* the validity filter of sendToAirtable:
\* !(!event.title_raw || event.title_raw.trim().length === 0)
HasTitle(event) == event.title_raw # "" /\ Trim(event.title_raw) # ""
validEvents(list) == SelectSeq(list, HasTitle)

\* the record posted for an event (the fields this model carries)
Fields(event) ==
  [title_raw |-> Substring0(event.title_raw, 1000), hash |-> Substring0(event.hash, 255)]
Records(batch) == [k \in 1..Len(batch) |-> Fields(batch[k])]

\* the remote call that fetchWithRetry just ended (by a response or by
\* throwing), added to the remote calls of this sendToAirtable
Answered(method, ids, records, status) ==
  Append(requests,
         [method |-> method, ids |-> ids, records |-> records, status |-> status])

\* the answer to this attempt of fetchWithRetry, after those to the earlier
\* attempts of the same call (attempt is the loop variable)
Attempted(status) ==
  attempts' = IF attempt = 1 THEN <<status>> ELSE Append(attempts, status)

\* the answer uses up one of the answers that are not 2xx
Fault(status) ==
  /\ status # "ok" => faults < MaxFaults
  /\ faults' = IF status = "ok" THEN faults ELSE faults + 1

(***************************************************************************)
(* SpecSync: calls of sendToAirtable against a store that may fail          *)
(***************************************************************************)
\* the rows in the table before the first call
OldRows(n) ==
  [k \in 1..n |-> [id |-> k, fields |-> [title_raw |-> "Old", hash |-> "o" \o ToString(k)]]]

\* n events, the third with a title of one space, or with an empty title
\* when there are no more than three
SyncInput(n) ==
  [k \in 1..n |->
     [title_raw |-> IF k = 3 THEN (IF n > 3 THEN " " ELSE "") ELSE "Fair",
      hash |-> "h" \o ToString(k)]]

\* the columns that sendToAirtable writes
requiredFields ==
  {"source_name", "title_raw", "description_raw", "start_raw", "location_raw", "url_raw",
   "category_hint", "fetched_at", "hash"}

\* what the store answers about a base: whether its tables can be listed, the
\* columns of its RawEvents table (none: there is no such table), and whether
\* RawEvents can be read
Bases ==
  {[listed |-> TRUE, hasTable |-> TRUE, fields |-> requiredFields, readable |-> TRUE],
   [listed |-> TRUE, hasTable |-> TRUE, fields |-> requiredFields \ {"hash"}, readable |-> TRUE],
   [listed |-> TRUE, hasTable |-> TRUE, fields |-> requiredFields, readable |-> FALSE],
   [listed |-> TRUE, hasTable |-> FALSE, fields |-> {}, readable |-> FALSE],
   [listed |-> FALSE, hasTable |-> TRUE, fields |-> requiredFields, readable |-> TRUE]}

\* process.env and the base behind AIRTABLE_BASE_ID
Envs ==
  {[token |-> TRUE, baseId |-> TRUE, base |-> b] : b \in Bases}
    \cup {[token |-> FALSE, baseId |-> TRUE, base |-> b] : b \in Bases}
    \cup {[token |-> TRUE, baseId |-> FALSE, base |-> b] : b \in Bases}

\* hasAirtableToken && hasAirtableBase
hasCredentials(e) == e.token /\ e.baseId

\* requiredFields.filter(field => !tableFields.includes(field))
missingFields(base) == requiredFields \ base.fields

\* verifyAirtableSetup: false when the tables cannot be listed, when there is
\* no RawEvents table or when the read test fails; missing columns are logged
verifyAirtableSetup(base) == base.listed /\ base.hasTable /\ base.readable

SyncInit ==
  /\ remote \in {OldRows(0), OldRows(3), OldRows(12)}
  /\ nextId = 101
  /\ syncEvents \in {SyncInput(0), SyncInput(3), SyncInput(12)}
  /\ syncPc = "verify"
  /\ env \in Envs
  /\ airtableReady = FALSE
  /\ attempt = 0
  /\ offset = 0
  /\ allRecords = <<>>
  /\ batchIndex = 0
  /\ totalDeleted = 0
  /\ totalSent = 0
  /\ totalErrors = 0
  /\ clearResult = <<>>
  /\ requests = <<>>
  /\ faults = 0
  /\ results = <<>>
  /\ existing = <<>>
  /\ attempts = <<>>
  /\ waited = FALSE
  /\ HashIdle
  /\ DateIdle
  /\ RunIdle

restVars == <<hashVars, dateVars, runVars>>

callVars ==
  <<remote, nextId, syncEvents, attempt, offset, allRecords, batchIndex, totalDeleted,
    totalSent, totalErrors, clearResult, requests, faults, results, existing, attempts,
    waited>>

\* Actor.main sets airtableReady: verifyAirtableSetup is called when both
\* credentials are there
Verify ==
  /\ syncPc = "verify"
  /\ airtableReady' = (hasCredentials(env) /\ verifyAirtableSetup(env.base))
  /\ syncPc' = "ready"
  /\ UNCHANGED <<env, callVars, restVars>>

\* processResults with airtableReady false: sendToAirtable is not called
SyncSkipped ==
  /\ syncPc = "ready"
  /\ ~airtableReady
  /\ syncPc' = "skipped"
  /\ UNCHANGED <<env, airtableReady, callVars, restVars>>

\* processResults with airtableReady true calls sendToAirtable(events), which
\* finds its credentials: clearAllEvents starts listing
SyncStart ==
  /\ syncPc = "ready"
  /\ airtableReady
  /\ hasCredentials(env)
  /\ Len(results) < MaxCalls
  /\ syncPc' = "list"
  /\ existing' = remote
  /\ attempts' = <<>>
  /\ attempt' = 1
  /\ offset' = 0
  /\ allRecords' = <<>>
  /\ batchIndex' = 0
  /\ totalDeleted' = 0
  /\ totalSent' = 0
  /\ totalErrors' = 0
  /\ clearResult' = <<>>
  /\ requests' = <<>>
  /\ waited' = FALSE
  /\ UNCHANGED <<remote, nextId, syncEvents, faults, results, env, airtableReady, restVars>>

\* clearAllEvents after the last answer to a list request
Listed(status) ==
  IF status = "ok"
    THEN /\ allRecords' = allRecords \o ListedPage(offset)
         /\ offset' = ListedOffset(offset)
         /\ syncPc' = IF ListedOffset(offset) # 0 THEN "list"
                      ELSE IF allRecords \o ListedPage(offset) = <<>> THEN "cleared"
                      ELSE "delete"
         /\ clearResult' = IF ListedOffset(offset) = 0 /\ allRecords \o ListedPage(offset) = <<>>
                             THEN [cleared |-> 0] ELSE clearResult
    ELSE /\ syncPc' = "cleared"
         /\ clearResult' \in
              IF status = "client"
                THEN {[cleared |-> 0], [cleared |-> 0, error |-> "error.message"]}
                ELSE {[cleared |-> 0, error |-> "error.message"]}
         /\ UNCHANGED <<allRecords, offset>>

\* one attempt of the GET of clearAllEvents and what follows its answer
ListAnswer ==
  /\ syncPc = "list"
  /\ \E status \in Statuses :
       /\ Fault(status)
       /\ Attempted(status)
       /\ IF Retries(status, attempt)
            THEN /\ attempt' = attempt + 1
                 /\ UNCHANGED <<allRecords, offset, syncPc, clearResult, requests>>
            ELSE /\ attempt' = 1
                 /\ requests' = Answered("GET", {}, <<>>, status)
                 /\ Listed(status)
  /\ UNCHANGED <<remote, nextId, syncEvents, batchIndex, totalDeleted, totalSent,
                 totalErrors, results, existing, env, airtableReady, waited, restVars>>

\* the wait of clearAllEvents after a batch that was answered, when another
\* batch follows
DeleteDelay == batchIndex + batchSize < Len(allRecords)

\* clearAllEvents after the last answer to the DELETE of the batch at batchIndex
DeleteDone(status) ==
  /\ totalDeleted' = IF status = "ok"
                       THEN totalDeleted + Len(Batch(allRecords, batchIndex))
                       ELSE totalDeleted
  /\ remote' = IF status = "ok"
                 THEN Deleted(remote, RecordIds(Batch(allRecords, batchIndex)))
                 ELSE remote
  /\ batchIndex' = batchIndex + batchSize
  /\ waited' = DeleteDelay
  /\ IF batchIndex + batchSize < Len(allRecords)
       THEN UNCHANGED <<syncPc, clearResult>>
       ELSE /\ syncPc' = "cleared"
            /\ clearResult' = [cleared |-> totalDeleted', attempted |-> Len(allRecords)]

\* the catch block of clearAllEvents
ClearCaught ==
  /\ syncPc' = "cleared"
  /\ waited' = FALSE
  /\ clearResult' = [cleared |-> 0, error |-> "error.message"]

\* one attempt of a DELETE of clearAllEvents and what follows its answer
DeleteAnswer ==
  /\ syncPc = "delete"
  /\ \E status \in Statuses :
       /\ Fault(status)
       /\ Attempted(status)
       /\ IF Retries(status, attempt)
            THEN /\ attempt' = attempt + 1
                 /\ UNCHANGED <<remote, totalDeleted, batchIndex, syncPc, clearResult, requests,
                              waited>>
            ELSE /\ attempt' = 1
                 /\ requests' = Answered("DELETE", RecordIds(Batch(allRecords, batchIndex)), <<>>, status)
                 /\ IF Throws(status, attempt)
                      THEN ClearCaught /\ UNCHANGED <<remote, totalDeleted, batchIndex>>
                      ELSE DeleteDone(status)
  /\ UNCHANGED <<nextId, syncEvents, offset, allRecords, totalSent, totalErrors,
                 results, existing, env, airtableReady, restVars>>

\* what sendToAirtable returns
Returned ==
  IF Len(syncEvents) = 0
    THEN [sent |-> 0, skipped |-> 0, cleared |-> clearResult.cleared]
    ELSE [sent |-> totalSent,
          skipped |-> Len(syncEvents) - Len(validEvents(syncEvents)),
          errors |-> totalErrors,
          cleared |-> clearResult.cleared]

\* clearAllEvents has returned: sendToAirtable goes on to the inserts
Cleared ==
  /\ syncPc = "cleared"
  /\ syncPc' = IF validEvents(syncEvents) = <<>> THEN "return" ELSE "insert"
  /\ batchIndex' = 0
  /\ attempt' = 1
  /\ waited' = FALSE
  /\ UNCHANGED <<remote, nextId, syncEvents, offset, allRecords, totalDeleted, totalSent,
                 totalErrors, clearResult, requests, faults, results, existing, attempts,
                 env, airtableReady, restVars>>

\* the wait of sendToAirtable, reached only after a batch that was accepted,
\* when another batch follows
InsertDelay(status) ==
  status = "ok" /\ batchIndex + batchSize < Len(validEvents(syncEvents))

\* sendToAirtable after the last answer to the POST of the batch at batchIndex
InsertDone(status) ==
  /\ totalSent' = IF status = "ok"
                    THEN totalSent + Len(Batch(validEvents(syncEvents), batchIndex))
                    ELSE totalSent
  /\ totalErrors' = IF status = "ok" THEN totalErrors ELSE totalErrors + 1
  /\ remote' = IF status = "ok"
                 THEN remote \o Created(Records(Batch(validEvents(syncEvents), batchIndex)), nextId)
                 ELSE remote
  /\ nextId' = IF status = "ok"
                 THEN nextId + Len(Batch(validEvents(syncEvents), batchIndex))
                 ELSE nextId
  /\ batchIndex' = batchIndex + batchSize
  /\ waited' = InsertDelay(status)
  /\ syncPc' = IF batchIndex + batchSize < Len(validEvents(syncEvents))
                 THEN "insert" ELSE "return"

\* one attempt of a POST of sendToAirtable and what follows its answer
InsertAnswer ==
  /\ syncPc = "insert"
  /\ \E status \in Statuses :
       /\ Fault(status)
       /\ Attempted(status)
       /\ IF Retries(status, attempt)
            THEN /\ attempt' = attempt + 1
                 /\ UNCHANGED <<remote, nextId, totalSent, totalErrors, batchIndex, syncPc, requests,
                              waited>>
            ELSE /\ attempt' = 1
                 /\ requests' = Answered("POST", {},
                                          Records(Batch(validEvents(syncEvents), batchIndex)),
                                          status)
                 /\ InsertDone(status)
  /\ UNCHANGED <<syncEvents, offset, allRecords, totalDeleted, clearResult,
                 results, existing, env, airtableReady, restVars>>

\* sendToAirtable returns its counts
SyncReturn ==
  /\ syncPc = "return"
  /\ syncPc' = "ready"
  /\ results' = Append(results, [returned |-> Returned, before |-> existing,
                                 table |-> remote, requests |-> requests])
  /\ UNCHANGED <<remote, nextId, syncEvents, attempt, offset, allRecords, batchIndex,
                 totalDeleted, totalSent, totalErrors, clearResult, requests, faults,
                 existing, attempts, env, airtableReady, waited, restVars>>

SyncNext ==
  \/ Verify
  \/ SyncSkipped
  \/ SyncStart
  \/ ListAnswer
  \/ DeleteAnswer
  \/ Cleared
  \/ InsertAnswer
  \/ SyncReturn

SpecSync == SyncInit /\ [][SyncNext]_vars

(***************************************************************************)
(* Properties of SpecSync                                                   *)
(***************************************************************************)
\* a DELETE batch naming the row was sent among the first n remote calls
DeleteBatchNames(id, n) ==
  \E j \in 1..n : requests[j].method = "DELETE" /\ id \in requests[j].ids

\* every row in the table at the start of the call was named in a DELETE
\* batch among the first n remote calls
AllNamed(n) == \A id \in RecordIds(existing) : DeleteBatchNames(id, n)

\* C2: in sendToAirtable, whatever rows the table held before the call and
\* whatever the input, by the time an insert (POST) request is sent every row
\* that existed before the call has been named in a DELETE batch sent earlier.
C2_DeleteAllBeforeInsert ==
  /\ syncPc = "insert" => AllNamed(Len(requests))
  /\ \A k \in 1..Len(requests) : requests[k].method = "POST" => AllNamed(k - 1)

\* the fields of the rows of a table, in table order
TableFields(table) == [k \in 1..Len(table) |-> table[k].fields]

\* every row of the table is the row of some event of the input
OnlyEventsOf(list, table) ==
  \A k \in 1..Len(table) : \E j \in 1..Len(list) : table[k].fields = Fields(list[j])

\* no row that was in the table before the call is in it afterwards
NoneOf(before, table) == RecordIds(before) \cap RecordIds(table) = {}

\* the table that call k of sendToAirtable left behind is a full replace
FullReplace(call) ==
  /\ OnlyEventsOf(syncEvents, call.table)
  /\ NoneOf(call.before, call.table)

AllOk(call) == \A k \in 1..Len(call.requests) : call.requests[k].status = "ok"

Transient == {"rate", "server", "neterr"}

\* a call of fetchWithRetry has ended and no later one has begun
FetchEnded == attempt = 1 /\ attempts # <<>>

\* a call of fetchWithRetry is between two attempts
FetchWaiting == attempt > 1

\* C14: one call of fetchWithRetry makes at most maxRetries attempts under
\* every sequence of 429, 5xx and network-error answers; it tries again after
\* each of these (and after nothing else) while attempts remain, so the number
\* of attempts left falls with every answer until the call ends, and it ends
\* with the answer to its last attempt: that response returned, or that
\* network error raised.
C14_BoundedRetries ==
  /\ Len(attempts) <= maxRetries
  /\ attempt <= maxRetries
  /\ \A k \in 1..(Len(attempts) - 1) : attempts[k] \in Transient
  /\ FetchWaiting => attempt = Len(attempts) + 1 /\ attempts[Len(attempts)] \in Transient
  /\ FetchEnded =>
       /\ attempts[Len(attempts)] \in Transient => Len(attempts) = maxRetries
       /\ requests # <<>>
       /\ requests[Len(requests)].status = attempts[Len(attempts)]

\* a call that used all its attempts, on a 429, a 5xx and a network error, and
\* ended raising the network error
C14_Witness ==
  /\ FetchEnded
  /\ attempts = <<"rate", "server", "neterr">>
  /\ requests[Len(requests)].status = "neterr"

\* a 4xx answer other than 429 is the last answer of its call, which has
\* ended with it; as a first answer it is the only one
ClientAnswerEnds ==
  \A k \in 1..Len(attempts) :
    attempts[k] = "client" =>
      /\ k = Len(attempts)
      /\ FetchEnded
      /\ requests[Len(requests)].status = "client"
      /\ attempts[1] = "client" => Len(attempts) = 1

\* this step ends the remote call of an insert batch with such a 4xx answer
InsertRefused ==
  /\ syncPc = "insert"
  /\ requests' # requests
  /\ requests'[Len(requests')].status = "client"

\* C15: a remote call answered with a 4xx status other than 429 is not tried
\* again: fetchWithRetry returns that response, after exactly one attempt when
\* it is the first answer; and for an insert batch so answered sendToAirtable
\* adds one to its errors count and nothing to its sent count.
C15_ClientErrorNotRetried ==
  /\ []ClientAnswerEnds
  /\ [][InsertRefused => totalErrors' = totalErrors + 1 /\ totalSent' = totalSent]_vars

\* the first insert batch of a call was answered 4xx at its first attempt and
\* the second one was sent
C15_Witness ==
  /\ syncPc = "return"
  /\ Len(requests) >= 2
  /\ requests[Len(requests) - 1].method = "POST"
  /\ requests[Len(requests) - 1].status = "client"
  /\ requests[Len(requests)].method = "POST"
  /\ requests[Len(requests)].status = "ok"
  /\ totalErrors = 1
  /\ totalSent = Len(validEvents(syncEvents)) - batchSize
  /\ totalSent > 0
  /\ attempts = <<"ok">>

\* this step ends the remote call of a delete or insert batch without a 2xx
\* response: by a response with an error status or by a raised network error
BatchFailed ==
  /\ syncPc \in {"delete", "insert"}
  /\ requests' # requests
  /\ requests'[Len(requests')].status # "ok"

\* the batch at batchIndex is not the last of its loop
MoreBatches ==
  batchIndex + batchSize <
    (IF syncPc = "delete" THEN Len(allRecords) ELSE Len(validEvents(syncEvents)))

\* C16: a delete or insert batch whose remote call fails, by a response that
\* is not ok or by a raised network error, does not keep the later batches of
\* the same sync from being attempted: the loop goes on to the next batch.
C16_FailedBatchGoesOn ==
  [][BatchFailed /\ MoreBatches =>
       syncPc' = syncPc /\ batchIndex' = batchIndex + batchSize]_vars

\* a credential is absent, or the base has no RawEvents table, or that table
\* lacks a required column
SetupUnfit ==
  \/ ~env.token
  \/ ~env.baseId
  \/ ~env.base.hasTable
  \/ missingFields(env.base) # {}

\* sendToAirtable has sent, or is about to send, a list, delete or insert
\* request
SyncRequested ==
  \/ syncPc \in {"list", "delete", "insert"}
  \/ requests # <<>>
  \/ results # <<>>

\* C17: when AIRTABLE_TOKEN or AIRTABLE_BASE_ID is absent, or the RawEvents
\* table is missing or lacks one of the required columns, sendToAirtable sends
\* no list, delete or insert request during the run.
C17_UnfitSetupNoRequests == SetupUnfit => ~SyncRequested

(***************************************************************************)
(* Properties of Spec: the record cap and the run summary                   *)
(***************************************************************************)
\* C18: the configured cap is at most 2000 (400 without maxEvents in the
\* input), and neither the list pushed to the dataset nor the list sent to the
\* store is longer than the configured cap.
C18_FinalSetWithinCap ==
  pc # "idle" =>
    /\ config.maxEvents <= 2000
    /\ \A k \in 1..Len(dataset) : Len(dataset[k]) <= config.maxEvents
    /\ \A k \in 1..Len(sent) : Len(sent[k]) <= config.maxEvents

\* C19: a run that ends without a fatal error has written the LATEST_SCRAPE
\* record exactly once, also when no events were found and when every event
\* was filtered out as past.
C19_SummaryWrittenOnce ==
  (pc = "exited" /\ exitCode = 0) => Len(latestScrape) = 1

\* C20: when a fatal error is raised in the try block of main after events
\* were accumulated, the run ends with a non-zero exit code and with the
\* accumulated events pushed to the dataset by the catch handler.
C20_FatalErrorSavesEvents ==
  (pc = "exited" /\ exitCode # 0 /\ allEvents # <<>>) =>
    /\ dataset # <<>>
    /\ dataset[Len(dataset)] = allEvents

(***************************************************************************)
(* Properties of Spec: the browser and the shared page                      *)
(***************************************************************************)
\* C21: on every path on which the browser was launched, browser.close() has
\* run when the process ends, on the normal path and on the fatal-error path
\* alike: a run that has exited never leaves the browser open.
C21_BrowserClosedAtExit == pc = "exited" => browser # "open"

\* a fatal error after events were accumulated, the browser closed at the end
C21_Witness ==
  pc = "exited" /\ exitCode # 0 /\ allEvents # <<>> /\ browser = "closed"

\* while a started scraper has not settled no other scraper is called and the
\* browser stays as it is
AloneOnPage == running # {} => called' = called /\ browser' = browser

Blank(text) == \A i \in 1..Len(text) : SubSeq(text, i, i) \in {" ", "\t", "\n"}

\* no insert request of the log carries a record with a blank title
NoBlankPosted(log) ==
  \A k \in 1..Len(log) :
    log[k].method = "POST" =>
      \A j \in 1..Len(log[k].records) : ~Blank(log[k].records[j].title_raw)

\* the events of the input with a blank title
BlankEvents == {i \in 1..Len(syncEvents) : Blank(syncEvents[i].title_raw)}

\* C23: no event whose title_raw is missing, empty or white space only is in
\* an insert request, and the skipped count that sendToAirtable returns is the
\* number of input events rejected for that reason.
C23_UntitledNeverInserted ==
  /\ NoBlankPosted(requests)
  /\ \A k \in 1..Len(results) :
       /\ NoBlankPosted(results[k].requests)
       /\ results[k].returned.skipped = Cardinality(BlankEvents)

\* a call that posted records and skipped the untitled event
C23_Witness ==
  \E k \in 1..Len(results) :
    /\ results[k].returned.skipped = 1
    /\ \E j \in 1..Len(results[k].requests) :
         /\ results[k].requests[j].method = "POST"
         /\ results[k].requests[j].status = "ok"

\* the insert requests of a log, in issue order
Posts(log) == SelectSeq(log, LAMBDA request : request.method = "POST")

\* the records of a list of requests, one after the other
RECURSIVE PostedRecords(_)
PostedRecords(posts) ==
  IF posts = <<>> THEN <<>> ELSE Head(posts).records \o PostedRecords(Tail(posts))

\* the events of the input that have a title, in their given order
TitledEvents == SelectSeq(syncEvents, LAMBDA event : ~Blank(event.title_raw))

\* the insert requests of a finished call are consecutive slices of the
\* titled events
ConsecutiveSlices(posts) ==
  /\ \A j \in 1..Len(posts) : Len(posts[j].records) \in 1..10
  /\ Len(posts) = (Len(TitledEvents) + 9) \div 10
  /\ PostedRecords(posts) = TitledEvents

\* C24: the insert requests of one sync carry consecutive slices of the valid
\* events in their given order: every batch has between 1 and 10 records,
\* there are ceil(valid/10) batches, and the batches put one after the other
\* in issue order are the list of valid events.
C24_InsertBatchesAreSlices ==
  \A k \in 1..Len(results) : ConsecutiveSlices(Posts(results[k].requests))

\* a call that sent its eleven valid events as a batch of ten and a batch of
\* one
C24_Witness ==
  \E k \in 1..Len(results) :
    /\ Len(Posts(results[k].requests)) = 2
    /\ Len(Posts(results[k].requests)[2].records) = 1

(***************************************************************************)
(* Properties of Spec: the filter of a source                               *)
(***************************************************************************)
\* the fingerprint of an extracted event
Fingerprint(event) ==
  generateHash(event.title_raw, event.start_raw, event.description_raw, event.source)

\* the positions of the extracted events that pass the time filter of the
\* sources
Passing(extracted, today) ==
  {i \in 1..Len(extracted) : isEventInFuture(extracted[i].start_raw, today)}

\* the positions of the first passing event of every fingerprint
FirstPassing(extracted, today) ==
  {i \in Passing(extracted, today) :
     \A j \in Passing(extracted, today) :
       j < i => Fingerprint(extracted[j]) # Fingerprint(extracted[i])}

\* emitted holds the events at the given positions, in the order of the
\* positions, each with its fingerprint
EmitsInOrder(emitted, extracted, positions) ==
  /\ Len(emitted) = Cardinality(positions)
  /\ \E at \in [1..Len(emitted) -> positions] :
       /\ \A k, l \in 1..Len(emitted) : k < l => at[k] < at[l]
       /\ \A k \in 1..Len(emitted) :
            /\ emitted[k].hash = Fingerprint(extracted[at[k]])
            /\ emitted[k].title_raw = extracted[at[k]].title_raw
            /\ emitted[k].start_raw = extracted[at[k]].start_raw
            /\ emitted[k].description_raw = extracted[at[k]].description_raw
            /\ emitted[k].source = extracted[at[k]].source

\* a source scraper has just resolved
SourceResolved == Len(called') = Len(called) + 1 /\ called'[Len(called')].ok

\* what the source that just resolved emitted is the first passing event of
\* every fingerprint, in extraction order
EmittedFirstPassing ==
  SourceResolved =>
    EmitsInOrder(called'[Len(called')].events, called'[Len(called')].extracted,
                 FirstPassing(called'[Len(called')].extracted, clock))

\* C25: the dedup/time filter of a source emits a subsequence of its extracted
\* events in extraction order: for every fingerprint the first extracted event
\* with it that passes the time filter, and no later one.
C25_SourceFilterStable == [][EmittedFirstPassing]_vars

\* the library extracted a book club and the same fair twice and emitted the
\* book club and one fair, in that order
C25_Witness ==
  \E k \in 1..Len(called) :
    /\ called[k].ok
    /\ Len(called[k].extracted) = 3
    /\ Len(called[k].events) = 2
    /\ called[k].events[1].title_raw = "Book Club"

(***************************************************************************)
(* Properties of SpecSync: the delay between batches                        *)
(***************************************************************************)
\* the next request is the first attempt of a batch that is not the first of
\* its phase
AtLaterBatch == syncPc \in {"delete", "insert"} /\ batchIndex > 0 /\ attempt = 1

\* C26: between any two consecutive batch requests of the same phase (delete
\* or insert) the inter-batch delay elapses, whether the earlier batch
\* succeeded, was answered with an error status, or raised.
C26_DelayBetweenBatches == AtLaterBatch => waited

(***************************************************************************)
(* Properties of Spec: the two time filters                                 *)
(***************************************************************************)
\* processResults has run on the day on which every source was scraped
SameDayProcessed == ticks = 0 /\ pc = "finally"

\* C27: when the filter of processResults sees the calendar day the source
\* scrapers saw, it removes no event that scrapeWestIslip returned, and the
\* final event set is the one a run with the other value of futureOnly
\* produces.
C27_FutureOnlyMakesNoDifference ==
  SameDayProcessed =>
    /\ futureEvents(allEvents, clock) = allEvents
    /\ dataset # <<>> =>
         dataset[Len(dataset)] = processedEvents(allEvents, ~config.futureOnly, clock)

\* a source dropped its past events and a run with futureOnly saved the rest
C27_Witness ==
  /\ SameDayProcessed
  /\ config.futureOnly
  /\ dataset # <<>>
  /\ \E k \in 1..Len(called) :
       called[k].ok /\ called[k].extracted # <<>> /\ called[k].events = <<>>

(***************************************************************************)
(* Properties of SpecDate: texts with a month and a day                     *)
(***************************************************************************)
\* somewhere in the text a month name is followed by white space and a digit
MonthDayWritten(text) ==
  \E i \in 1..Len(text) :
    MonthPrefixEnd(text, i) # 0 /\ IsDigit(At(text, MonthPrefixEnd(text, i)))

\* the parsed instant is at or after the midnight of today, and isEventInFuture
\* of main keeps the event
ParsedNotPast ==
  DateGeq(dateOut, Today(dateNow)) /\ mainIsEventInFuture(dateIn, dateNow)

EmptyFinalSet ==
  /\ pc = "town"
  /\ pc' \in {"finally", "exited"}
  /\ filterFuture(allEvents, config.futureOnly, clock) = <<>>

\* C29: a run whose final event set is empty (no events found, or all
\* filtered out as past) does not call sendToAirtable, so it issues no list,
\* delete or insert request and the rows of an earlier run stay in the table.
C29_EmptyRunLeavesStore == [][EmptyFinalSet => sent' = <<>>]_vars

\* a run with the store ready whose only event was past when processResults
\* filtered it
C29_Witness ==
  /\ pc = "finally"
  /\ config.airtableReady
  /\ config.futureOnly
  /\ allEvents # <<>>
  /\ dataset = <<>>
  /\ sent = <<>>

(***************************************************************************)
(* Properties of SpecSync: the cleared count                                *)
(***************************************************************************)
\* the rows that were in the table when the call began and are not in it when
\* the call returns
RowsDeleted(result) == RecordIds(result.before) \ RecordIds(result.table)

\* C30: the cleared count that sendToAirtable returns is the number of
\* pre-existing rows that were deleted from the table during that call, for
\* every sequence of list and delete outcomes.
C30_ClearedCountsDeletedRows ==
  \A k \in 1..Len(results) :
    results[k].returned.cleared = Cardinality(RowsDeleted(results[k]))

=============================================================================
